---------------------------- MODULE Spec2Model ----------------------------
(***************************************************************************)
(* Average distance between two vertices of an undirected graph            *)
(* (src/src/main.rs).                                                      *)
(*                                                                         *)
(* Two state machines share the variables below.                           *)
(*   Spec     : main(), from reading the edge file to the final report.    *)
(*              bfs_traverse and shortest_path are called as functions.    *)
(*   SpecCall : the graph construction followed by one direct call of      *)
(*              bfs_traverse or shortest_path (what the tests module       *)
(*              does), with the traversal loops taken one iteration at a   *)
(*              time.                                                      *)
(* Both use the same definitions of the loop bodies.                       *)
(*                                                                         *)
(* Vectors indexed by a vertex (visited, distances, adjacency) are         *)
(* functions on 0..n-1.  Other vectors are sequences, so that the Rust     *)
(* element v[i] is the element [i+1] here.                                 *)
(***************************************************************************)
EXTENDS Integers, Sequences, FiniteSets, TLC

VARIABLES
    pc,               \* position in main() or in the called function
    file,             \* the edge file: [opens, lines]
    edges,            \* main: edges
    n,                \* graph.n
    adjacency,        \* graph.adjacency
    arg_start,        \* the start / start_vertex argument of the running call
    arg_end,          \* the end argument of the running shortest_path call
    visited,          \* bfs_traverse / shortest_path: visited
    distances,        \* shortest_path: distances
    queue,            \* bfs_traverse / shortest_path: queue
    current,          \* bfs_traverse / shortest_path: current, the vertex popped last
    visited_order,    \* bfs_traverse: visited_order
    result,           \* value returned by the call that finished last
    enq,              \* history: how often each vertex was pushed on queue
    deq,              \* history: number of pop_front calls that returned Some
    visited_vertices, \* main: visited_vertices
    chosen_pairs,     \* main: chosen_pairs
    random_pairs,     \* main: random_pairs
    attempts,         \* main: attempts
    next_pair,        \* main: number of pairs the distance loop has consumed
    total_distance,   \* main: total_distance
    counted_pairs,    \* main: counted_pairs
    out,              \* the messages printed so far
    valid_lines       \* history: well-formed edge lines the file held after its first line

vars == <<pc, file, edges, n, adjacency, arg_start, arg_end, visited,
          distances, queue, current, visited_order, result, enq, deq,
          visited_vertices, chosen_pairs, random_pairs, attempts, next_pair,
          total_distance, counted_pairs, out, valid_lines>>

callVars == <<arg_start, arg_end, visited, distances, queue, current,
              visited_order,
              result, enq, deq>>

mainVars == <<visited_vertices, chosen_pairs, random_pairs, attempts,
              next_pair, total_distance, counted_pairs>>

----------------------------------------------------------------------------
(* Bounds of the model *)

\* largest vertex id of the edge lists handed to the construction in SpecCall
MaxVertex == 3
\* largest vertex id of the plain "u,v" lines of the edge file
MaxFileVertex == 2
\* largest number of edges handed to the construction in SpecCall
MaxEdges == 3
\* largest number of lines of the edge file, the header line included
MaxLines == 3
\* stands for pair_sample_size (1000 in the source)
PairSampleSize == 2
\* stands for the factor of max_attempts (100 in the source)
AttemptFactor == 2

\* std::usize::MAX.  The largest integer TLC represents stands for 2^64 - 1:
\* it parses, the next number does not, and adding 1 to it overflows.
USIZE_MAX == 2147483647

----------------------------------------------------------------------------
(* Helpers *)

SetMax(S) == CHOOSE x \in S : \A y \in S : y <= x

Range(s) == {s[i] : i \in DOMAIN s}

\* number of positions of s that hold x
Count(s, x) == Cardinality({i \in DOMAIN s : s[i] = x})

RECURSIVE Insert(_, _)
Insert(s, x) ==
    IF s = <<>> THEN <<x>>
    ELSE IF x < Head(s) THEN <<x>> \o s
    ELSE <<Head(s)>> \o Insert(Tail(s), x)

\* neighbors.sort(), as a plain ascending sort
RECURSIVE SortAscending(_)
SortAscending(s) == IF s = <<>> THEN <<>> ELSE Insert(SortAscending(Tail(s)), Head(s))

sort(s) == SortAscending(s)

----------------------------------------------------------------------------
(* read_edge_list: the text of a line is a sequence of characters *)

Whitespace == {" "}

RECURSIVE TrimStart(_)
TrimStart(s) ==
    IF s # <<>> /\ Head(s) \in Whitespace THEN TrimStart(Tail(s)) ELSE s

RECURSIVE TrimEnd(_)
TrimEnd(s) ==
    IF s # <<>> /\ s[Len(s)] \in Whitespace
    THEN TrimEnd(SubSeq(s, 1, Len(s) - 1)) ELSE s

\* str::trim
trim(s) == TrimEnd(TrimStart(s))

\* str::split(','): the pieces between the commas, empty pieces included
RECURSIVE split(_)
split(s) ==
    IF \A i \in DOMAIN s : s[i] # ","
    THEN <<s>>
    ELSE LET k == CHOOSE i \in DOMAIN s :
                      s[i] = "," /\ \A j \in 1..(i - 1) : s[j] # ","
         IN <<SubSeq(s, 1, k - 1)>> \o split(SubSeq(s, k + 1, Len(s)))

DigitValue ==
    [c \in {"0", "1", "2", "3", "4", "5", "6", "7", "8", "9"} |->
        CASE c = "0" -> 0 [] c = "1" -> 1 [] c = "2" -> 2 [] c = "3" -> 3
          [] c = "4" -> 4 [] c = "5" -> 5 [] c = "6" -> 6 [] c = "7" -> 7
          [] c = "8" -> 8 [] c = "9" -> 9]

\* the value of the digits s after the value acc, by checked_mul(10) and
\* checked_add(digit); -1 when the value is past usize::MAX
RECURSIVE DigitsValue(_, _)
DigitsValue(s, acc) ==
    IF s = <<>> THEN acc
    ELSE LET d == DigitValue[Head(s)]
         IN IF acc > (USIZE_MAX - d) \div 10 THEN -1
            ELSE DigitsValue(Tail(s), 10 * acc + d)

\* str::parse::<usize>: an optional '+', then one digit or more, of a value
\* up to usize::MAX.  [ok |-> FALSE] is Err(_).
parse_usize(s) ==
    LET digits == IF s # <<>> /\ Head(s) = "+" THEN Tail(s) ELSE s
    IN IF digits # <<>> /\ \A i \in DOMAIN digits : digits[i] \in DOMAIN DigitValue
       THEN LET value == DigitsValue(digits, 0)
            IN IF value >= 0 THEN [ok |-> TRUE, value |-> value]
               ELSE [ok |-> FALSE, value |-> 0]
       ELSE [ok |-> FALSE, value |-> 0]

\* the body of the for loop of read_edge_list on one line; a line is
\* [ok, text], ok = FALSE for a line that could not be read
LineEdges(line) ==
    IF ~line.ok THEN <<>>
    ELSE LET parts == split(trim(line.text))
         IN IF Len(parts) = 2
            THEN LET a == parse_usize(parts[1])
                     b == parse_usize(parts[2])
                 IN IF a.ok /\ b.ok THEN << <<a.value, b.value>> >> ELSE <<>>
            ELSE <<>>

RECURSIVE ParseLines(_)
ParseLines(lines) ==
    IF lines = <<>> THEN <<>> ELSE LineEdges(Head(lines)) \o ParseLines(Tail(lines))

\* read_edge_list reading every line, the first one too
ReadNoHeaderSkip(f) ==
    IF ~f.opens THEN [some |-> FALSE, edges |-> <<>>]
    ELSE LET es == ParseLines(f.lines)
         IN IF es = <<>> THEN [some |-> FALSE, edges |-> <<>>]
            ELSE [some |-> TRUE, edges |-> es]

\* read_edge_list; [some |-> FALSE] is None
read_edge_list(f) ==
    IF ~f.opens THEN [some |-> FALSE, edges |-> <<>>]
    ELSE LET rest == IF f.lines = <<>> THEN <<>> ELSE Tail(f.lines)
             es == ParseLines(rest)
         IN IF es = <<>> THEN [some |-> FALSE, edges |-> <<>>]
            ELSE [some |-> TRUE, edges |-> es]

----------------------------------------------------------------------------
(* Graph construction, main lines 57-75 *)

\* edges.iter().flat_map(|&(u,v)| [u,v]).max().unwrap_or(0)
max_vertex_index(es) ==
    IF es = <<>> THEN 0
    ELSE SetMax(UNION {{es[i][1], es[i][2]} : i \in DOMAIN es})

\* an edge inserted at its first endpoint only
PushOneWay(lists, u, v) == [lists EXCEPT ![u] = Append(@, v)]

\* adjacency_lists[u].push(v); adjacency_lists[v].push(u);
PushEdge(lists, u, v) ==
    LET l1 == [lists EXCEPT ![u] = Append(@, v)]
    IN [l1 EXCEPT ![v] = Append(@, u)]

\* the for loop over &edges
RECURSIVE PushEdges(_, _, _)
PushEdges(lists, es, total_vertices) ==
    IF es = <<>> THEN lists
    ELSE LET u == Head(es)[1]
             v == Head(es)[2]
             l1 == IF u < total_vertices /\ v < total_vertices
                   THEN PushEdge(lists, u, v) ELSE lists
         IN PushEdges(l1, Tail(es), total_vertices)

\* max_vertex_index + 1 of line 59.  Past usize::MAX the addition panics in a
\* build with overflow checks (the debug profile) and wraps to 0 in one
\* without (the release profile).
TotalVertices(es, overflow_checks) ==
    IF max_vertex_index(es) = USIZE_MAX
    THEN [fault |-> overflow_checks, value |-> 0]
    ELSE [fault |-> FALSE, value |-> max_vertex_index(es) + 1]

\* the Graph value built from a non-empty edge list: [fault, n, adjacency]
ConstructGraph(es, overflow_checks) ==
    LET total == TotalVertices(es, overflow_checks)
        total_vertices == total.value
        adjacency_lists ==
            PushEdges([x \in 0..(total_vertices - 1) |-> <<>>], es, total_vertices)
    IN IF total.fault
       THEN [fault |-> TRUE, n |-> 0, adjacency |-> <<>>]
       ELSE [fault |-> FALSE,
             n |-> total_vertices,
             adjacency |-> [x \in 0..(total_vertices - 1) |-> sort(adjacency_lists[x])]]

graph == [n |-> n, adjacency |-> adjacency]

NoGraph == [n |-> 0, adjacency |-> <<>>]

----------------------------------------------------------------------------
(* bfs_traverse, lines 174-196.  A frame holds the locals of one call;     *)
(* fault is set by an index outside a vector, where the program panics.    *)

BfsFault == [visited |-> <<>>, queue |-> <<>>, current |-> 0,
             visited_order |-> <<>>, fault |-> TRUE]

\* the start vertex is pushed without being marked
BfsEnterUnmarked(g, start_vertex) ==
    IF start_vertex \notin 0..(g.n - 1) THEN BfsFault
    ELSE [visited |-> [x \in 0..(g.n - 1) |-> FALSE],
          queue |-> <<start_vertex>>,
          current |-> 0,
          visited_order |-> <<>>,
          fault |-> FALSE]

\* lines 179-184
BfsEnter(g, start_vertex) ==
    IF start_vertex \notin 0..(g.n - 1) THEN BfsFault
    ELSE [visited |-> [x \in 0..(g.n - 1) |-> x = start_vertex],
          queue |-> <<start_vertex>>,
          current |-> 0,
          visited_order |-> <<>>,
          fault |-> FALSE]

\* lines 189-192, the body of the for loop
BfsNeighbor(f, neighbor) ==
    IF neighbor \notin DOMAIN f.visited THEN [f EXCEPT !.fault = TRUE]
    ELSE IF ~f.visited[neighbor]
         THEN [f EXCEPT !.visited[neighbor] = TRUE, !.queue = Append(@, neighbor)]
         ELSE f

\* line 188, the for loop over &graph.adjacency[current]
RECURSIVE BfsNeighbors(_, _)
BfsNeighbors(f, neighbors) ==
    IF neighbors = <<>> \/ f.fault THEN f
    ELSE BfsNeighbors(BfsNeighbor(f, Head(neighbors)), Tail(neighbors))

\* an iteration that marks a vertex when it is popped, not when it is pushed
BfsIterLateMark(g, f) ==
    LET cur == Head(f.queue)
        f1 == [f EXCEPT !.queue = Tail(@), !.current = cur,
                        !.visited[cur] = TRUE,
                        !.visited_order = Append(@, cur)]
        unseen == SelectSeq(g.adjacency[cur], LAMBDA v : ~f1.visited[v])
    IN [f1 EXCEPT !.queue = @ \o unseen]

\* lines 186-194, one iteration of the while loop; f.queue is not empty
BfsIter(g, f) ==
    LET cur == Head(f.queue)
        f1 == [f EXCEPT !.queue = Tail(@), !.current = cur,
                        !.visited_order = Append(@, cur)]
    IN IF cur \notin DOMAIN g.adjacency THEN [f1 EXCEPT !.fault = TRUE]
       ELSE BfsNeighbors(f1, g.adjacency[cur])

RECURSIVE BfsRun(_, _)
BfsRun(g, f) ==
    IF f.fault \/ f.queue = <<>> THEN f ELSE BfsRun(g, BfsIter(g, f))

\* the range check of line 175
BfsInRange(g, start_vertex) == ~(start_vertex >= g.n)

\* the whole call: [fault, value]
bfs_traverse(g, start_vertex) ==
    IF ~BfsInRange(g, start_vertex) THEN [fault |-> FALSE, value |-> <<>>]
    ELSE LET f == BfsRun(g, BfsEnter(g, start_vertex))
         IN [fault |-> f.fault, value |-> f.visited_order]

----------------------------------------------------------------------------
(* shortest_path, lines 200-229.  done is set when the loop returned.      *)

SpFault == [visited |-> <<>>, distances |-> <<>>, queue |-> <<>>, current |-> 0,
            done |-> TRUE, value |-> 0, fault |-> TRUE]

\* the start vertex is marked but never pushed
SpEnterNoPush(g, start) ==
    IF start \notin 0..(g.n - 1) THEN SpFault
    ELSE [visited |-> [x \in 0..(g.n - 1) |-> x = start],
          distances |-> [x \in 0..(g.n - 1) |-> IF x = start THEN 0 ELSE USIZE_MAX],
          queue |-> <<>>,
          current |-> 0,
          done |-> FALSE,
          value |-> 0,
          fault |-> FALSE]

\* lines 208-214
SpEnter(g, start) ==
    IF start \notin 0..(g.n - 1) THEN SpFault
    ELSE [visited |-> [x \in 0..(g.n - 1) |-> x = start],
          distances |-> [x \in 0..(g.n - 1) |-> IF x = start THEN 0 ELSE USIZE_MAX],
          queue |-> <<start>>,
          current |-> 0,
          done |-> FALSE,
          value |-> 0,
          fault |-> FALSE]

\* lines 221-225, the body of the for loop
SpNeighbor(f, neighbor) ==
    IF neighbor \notin DOMAIN f.visited THEN [f EXCEPT !.fault = TRUE]
    ELSE IF ~f.visited[neighbor]
         THEN [f EXCEPT !.visited[neighbor] = TRUE,
                        !.distances[neighbor] = f.distances[f.current] + 1,
                        !.queue = Append(@, neighbor)]
         ELSE f

\* line 220, the for loop over &graph.adjacency[current]
RECURSIVE SpNeighbors(_, _)
SpNeighbors(f, neighbors) ==
    IF neighbors = <<>> \/ f.fault THEN f
    ELSE SpNeighbors(SpNeighbor(f, Head(neighbors)), Tail(neighbors))

RECURSIVE SpLateNeighbors(_, _)
SpLateNeighbors(f, neighbors) ==
    IF neighbors = <<>> THEN f
    ELSE LET v == Head(neighbors)
             f1 == IF ~f.visited[v]
                   THEN [f EXCEPT !.distances[v] = f.distances[f.current] + 1,
                                  !.queue = Append(@, v)]
                   ELSE f
         IN SpLateNeighbors(f1, Tail(neighbors))

\* an iteration that marks a vertex when it is popped, not when it is pushed
SpIterLateMark(g, f, end) ==
    LET cur == Head(f.queue)
        f1 == [f EXCEPT !.queue = Tail(@), !.current = cur, !.visited[cur] = TRUE]
    IN IF cur = end
       THEN [f1 EXCEPT !.done = TRUE, !.value = f1.distances[end]]
       ELSE SpLateNeighbors(f1, g.adjacency[cur])

\* lines 216-227, one iteration of the while loop; f.queue is not empty
SpIter(g, f, end) ==
    LET cur == Head(f.queue)
        f1 == [f EXCEPT !.queue = Tail(@), !.current = cur]
    IN IF cur = end
       THEN IF end \in DOMAIN f1.distances
            THEN [f1 EXCEPT !.done = TRUE, !.value = f1.distances[end]]
            ELSE [f1 EXCEPT !.fault = TRUE]
       ELSE IF cur \notin DOMAIN g.adjacency THEN [f1 EXCEPT !.fault = TRUE]
       ELSE SpNeighbors(f1, g.adjacency[cur])

\* line 228: the frontier emptied without reaching end
SpExhaust(f) == [f EXCEPT !.done = TRUE, !.value = USIZE_MAX]

RECURSIVE SpRun(_, _, _)
SpRun(g, f, end) ==
    IF f.fault \/ f.done THEN f
    ELSE IF f.queue = <<>> THEN SpExhaust(f)
    ELSE SpRun(g, SpIter(g, f, end), end)

\* the test of start == end is missing
SpGuardRangeOnly(g, start, end) ==
    IF start >= g.n \/ end >= g.n THEN [returns |-> TRUE, value |-> USIZE_MAX]
    ELSE [returns |-> FALSE, value |-> 0]

\* the range test lets the vertex count itself through
SpGuardOffByOne(g, start, end) ==
    IF start > g.n \/ end > g.n THEN [returns |-> TRUE, value |-> USIZE_MAX]
    ELSE IF start = end THEN [returns |-> TRUE, value |-> 0]
    ELSE [returns |-> FALSE, value |-> 0]

\* lines 201-206, the two early returns
SpGuard(g, start, end) ==
    IF start >= g.n \/ end >= g.n THEN [returns |-> TRUE, value |-> USIZE_MAX]
    ELSE IF start = end THEN [returns |-> TRUE, value |-> 0]
    ELSE [returns |-> FALSE, value |-> 0]

\* the whole call: [fault, value]
shortest_path(g, start, end) ==
    LET early == SpGuard(g, start, end)
    IN IF early.returns THEN [fault |-> FALSE, value |-> early.value]
       ELSE LET f == SpRun(g, SpEnter(g, start), end)
            IN [fault |-> f.fault, value |-> f.value]

----------------------------------------------------------------------------
(* SpecCall: a constructed graph and one direct call *)

Vertices == 0..MaxVertex

\* the edge lists of the bound, and one that holds the vertex usize::MAX
EdgeLists ==
    UNION {[1..k -> Vertices \X Vertices] : k \in 1..MaxEdges}
        \cup {<< <<0, USIZE_MAX>> >>}

\* the values passed as start and end; MaxVertex + 1 is in range of no graph
Args == 0..(MaxVertex + 1)

NoCall ==
    /\ arg_start = 0
    /\ arg_end = 0
    /\ visited = <<>>
    /\ distances = <<>>
    /\ queue = <<>>
    /\ current = 0
    /\ visited_order = <<>>
    /\ result = <<>>
    /\ enq = <<>>
    /\ deq = 0

NoSampling ==
    /\ visited_vertices = <<>>
    /\ chosen_pairs = {}
    /\ random_pairs = <<>>
    /\ attempts = 0
    /\ next_pair = 0
    /\ total_distance = 0
    /\ counted_pairs = 0

InitCall ==
    /\ pc = "idle"
    /\ file = [opens |-> FALSE, lines |-> <<>>]
    /\ edges = <<>>
    /\ \E es \in EdgeLists :
           \* every graph a build with overflow checks returns, one without
           \* returns too
           LET g == ConstructGraph(es, FALSE)
           IN n = g.n /\ adjacency = g.adjacency
    /\ NoCall
    /\ NoSampling
    /\ out = <<>>
    /\ valid_lines = 0

\* enq after the frame went from queue q0 (its head popped, if popped) to q1
Pushed(q0, q1, popped) ==
    LET kept == IF popped THEN Tail(q0) ELSE q0
    IN [v \in 0..(n - 1) |-> enq[v] + Count(q1, v) - Count(kept, v)]

\* bfs_traverse(&graph, start_vertex) is entered
CallBfs(start_vertex) ==
    /\ pc = "idle"
    /\ arg_start' = start_vertex
    /\ IF ~BfsInRange(graph, start_vertex)
       THEN /\ pc' = "bfs_returned"
            /\ result' = <<>>
            /\ UNCHANGED <<visited, queue, current, visited_order, enq>>
       ELSE LET f == BfsEnter(graph, start_vertex)
            IN /\ pc' = IF f.fault THEN "panic" ELSE "bfs_loop"
               /\ visited' = f.visited
               /\ queue' = f.queue
               /\ current' = f.current
               /\ visited_order' = f.visited_order
               /\ enq' = [v \in 0..(n - 1) |-> Count(f.queue, v)]
               /\ UNCHANGED result
    /\ UNCHANGED <<file, edges, n, adjacency, arg_end, distances, deq, out, valid_lines>>
    /\ UNCHANGED mainVars

BfsFrame == [visited |-> visited, queue |-> queue, current |-> current,
             visited_order |-> visited_order, fault |-> FALSE]

\* while let Some(current) = queue.pop_front() { ... }
BfsIterate ==
    /\ pc = "bfs_loop"
    /\ queue # <<>>
    /\ LET f == BfsIter(graph, BfsFrame)
       IN /\ pc' = IF f.fault THEN "panic" ELSE "bfs_loop"
          /\ visited' = f.visited
          /\ queue' = f.queue
          /\ current' = f.current
          /\ visited_order' = f.visited_order
          /\ enq' = Pushed(queue, f.queue, TRUE)
          /\ deq' = deq + 1
    /\ UNCHANGED <<file, edges, n, adjacency, arg_start, arg_end, distances,
                   result, out, valid_lines>>
    /\ UNCHANGED mainVars

\* pop_front returned None: line 195
BfsReturn ==
    /\ pc = "bfs_loop"
    /\ queue = <<>>
    /\ pc' = "bfs_returned"
    /\ result' = visited_order
    /\ UNCHANGED <<file, edges, n, adjacency, arg_start, arg_end, visited,
                   distances, queue, current, visited_order, enq, deq, out, valid_lines>>
    /\ UNCHANGED mainVars

\* shortest_path(&graph, start, end) is entered
CallSp(start, end) ==
    /\ pc = "idle"
    /\ arg_start' = start
    /\ arg_end' = end
    /\ LET early == SpGuard(graph, start, end)
       IN IF early.returns
          THEN /\ pc' = "sp_returned"
               /\ result' = early.value
               /\ UNCHANGED <<visited, distances, queue, current, enq>>
          ELSE LET f == SpEnter(graph, start)
               IN /\ pc' = IF f.fault THEN "panic" ELSE "sp_loop"
                  /\ visited' = f.visited
                  /\ distances' = f.distances
                  /\ queue' = f.queue
                  /\ current' = f.current
                  /\ enq' = [v \in 0..(n - 1) |-> Count(f.queue, v)]
                  /\ UNCHANGED result
    /\ UNCHANGED <<file, edges, n, adjacency, visited_order, deq, out, valid_lines>>
    /\ UNCHANGED mainVars

SpFrame == [visited |-> visited, distances |-> distances, queue |-> queue,
            current |-> current, done |-> FALSE, value |-> 0, fault |-> FALSE]

\* while let Some(current) = queue.pop_front() { ... }
SpIterate ==
    /\ pc = "sp_loop"
    /\ queue # <<>>
    /\ LET f == SpIter(graph, SpFrame, arg_end)
       IN /\ pc' = IF f.fault THEN "panic"
                   ELSE IF f.done THEN "sp_returned" ELSE "sp_loop"
          /\ visited' = f.visited
          /\ distances' = f.distances
          /\ queue' = f.queue
          /\ current' = f.current
          /\ result' = IF f.done /\ ~f.fault THEN f.value ELSE result
          /\ enq' = Pushed(queue, f.queue, TRUE)
          /\ deq' = deq + 1
    /\ UNCHANGED <<file, edges, n, adjacency, arg_start, arg_end,
                   visited_order, out, valid_lines>>
    /\ UNCHANGED mainVars

\* pop_front returned None: line 228
SpReturnNoPath ==
    /\ pc = "sp_loop"
    /\ queue = <<>>
    /\ pc' = "sp_returned"
    /\ result' = SpExhaust(SpFrame).value
    /\ UNCHANGED <<file, edges, n, adjacency, arg_start, arg_end, visited,
                   distances, queue, current, visited_order, enq, deq, out, valid_lines>>
    /\ UNCHANGED mainVars

NextCall ==
    \/ \E s \in Args : CallBfs(s)
    \/ BfsIterate
    \/ BfsReturn
    \/ \E s \in Args, e \in Args : CallSp(s, e)
    \/ SpIterate
    \/ SpReturnNoPath

SpecCall == InitCall /\ [][NextCall]_vars

----------------------------------------------------------------------------
(* Paths of the graph, defined without any queue *)

Adjacent(u, v) == u \in DOMAIN adjacency /\ v \in Range(adjacency[u])

\* the vertices some path of at most k edges leads to from s
RECURSIVE Ball(_, _)
Ball(s, k) ==
    IF k = 0 THEN {s}
    ELSE LET B == Ball(s, k - 1)
         IN B \cup {v \in 0..(n - 1) : \E u \in B : Adjacent(u, v)}

Connected(s, e) == e \in Ball(s, n)

\* the least number of edges of a path from s to e, which are connected
MinEdges(s, e) == CHOOSE k \in 0..n : e \in Ball(s, k) /\ \A j \in 0..(k - 1) : e \notin Ball(s, j)

Unallocated == visited = <<>> /\ distances = <<>> /\ queue = <<>> /\ enq = <<>> /\ deq = 0

----------------------------------------------------------------------------
(* Claims about bfs_traverse and shortest_path, under SpecCall *)

\* C1: for in-range start # end, shortest_path returns the minimum number of
\* edges over all paths between start and end when a path exists, and
\* usize::MAX exactly when none exists.
C1_ShortestPathMinimum ==
    /\ pc # "panic"
    /\ (pc = "sp_returned" /\ arg_start < n /\ arg_end < n /\ arg_start # arg_end)
       => /\ Connected(arg_start, arg_end) => result = MinEdges(arg_start, arg_end)
          /\ result = USIZE_MAX <=> ~Connected(arg_start, arg_end)

\* a call that returned 3 for vertices three edges apart
C1_Witness ==
    /\ pc = "sp_returned"
    /\ arg_start < n /\ arg_end < n
    /\ result = 3
    /\ MinEdges(arg_start, arg_end) = 3

\* C2: for start < vertex_count the sequence bfs_traverse returns starts with
\* start, holds no vertex twice, and holds a vertex exactly if a path leads
\* to it from start (so its length is vertex_count on a connected graph).
C2_BfsReachable ==
    (pc = "bfs_returned" /\ arg_start < n)
    => /\ Len(result) >= 1
       /\ result[1] = arg_start
       /\ \A i, j \in DOMAIN result : result[i] = result[j] => i = j
       /\ Range(result) = {v \in 0..(n - 1) : Connected(arg_start, v)}
       /\ (\A v \in 0..(n - 1) : Connected(arg_start, v)) => Len(result) = n

\* a call that returned three of the four vertices of a graph
C2_Witness ==
    /\ pc = "bfs_returned"
    /\ arg_start < n
    /\ n = 4
    /\ Len(result) = 3

\* C3: shortest_path(graph, u, v) equals shortest_path(graph, v, u) for all
\* u and v, the no-path result included.
C3_ShortestPathSymmetric ==
    pc = "sp_returned"
    => LET back == shortest_path(graph, arg_end, arg_start)
       IN ~back.fault /\ result = back.value

\* a call that returned 2, and one would return 2 for the swapped arguments
C3_Witness ==
    /\ pc = "sp_returned"
    /\ arg_start < arg_end
    /\ result = 2
    /\ shortest_path(graph, arg_end, arg_start).value = 2

\* C4 as stated: whenever start == end, shortest_path returns 0 without
\* running the traversal, whatever the graph and the value passed.
C4_Original ==
    (pc = "sp_returned" /\ arg_start = arg_end)
    => result = 0 /\ Unallocated

\* C4: whenever start == end and the value is in range (< vertex_count),
\* shortest_path returns 0 without running the traversal.
C4_EqualInRangeIsZero ==
    (pc \in {"sp_loop", "sp_returned", "panic"} /\ arg_start = arg_end /\ arg_start < n)
    => pc = "sp_returned" /\ result = 0 /\ Unallocated

\* a call with start == end in range that returned
C4_Witness ==
    /\ pc = "sp_returned"
    /\ arg_start = arg_end
    /\ arg_start = 2
    /\ n = 4
    /\ result = 0

\* C5: shortest_path returns usize::MAX whenever start or end is
\* >= vertex_count and bfs_traverse returns the empty sequence whenever start
\* is >= vertex_count; neither faults, and no marker, distance or adjacency
\* vector is allocated or indexed.
C5_OutOfRangeDefined ==
    /\ pc # "panic"
    /\ (pc \in {"sp_loop", "sp_returned"} /\ (arg_start >= n \/ arg_end >= n))
       => pc = "sp_returned" /\ result = USIZE_MAX /\ Unallocated
    /\ (pc \in {"bfs_loop", "bfs_returned"} /\ arg_start >= n)
       => pc = "bfs_returned" /\ result = <<>> /\ Unallocated

\* a shortest_path call whose start equals its end equals vertex_count
C5_Witness ==
    /\ pc = "sp_returned"
    /\ arg_start = n
    /\ arg_end = n
    /\ result = USIZE_MAX

InTraversal ==
    \/ pc \in {"bfs_loop", "sp_loop"}
    \/ pc \in {"bfs_returned", "sp_returned"} /\ enq # <<>>

EnqueuedOnce ==
    InTraversal
    => /\ \A v \in 0..(n - 1) : enq[v] <= 1 /\ (enq[v] = 1 <=> visited[v])
       /\ deq + Len(queue) = Cardinality({v \in 0..(n - 1) : enq[v] = 1})
       /\ deq <= n
       /\ pc = "bfs_returned"
          => /\ queue = <<>>
             /\ \A v \in 0..(n - 1) : Connected(arg_start, v) => enq[v] = 1
       /\ pc = "sp_returned" => (queue = <<>> \/ current = arg_end)

\* C9: in both traversals a vertex is enqueued only when it is first marked
\* visited, so never twice (bfs_traverse enqueues every reachable vertex
\* once); whatever was enqueued is dequeued or still waiting, so at most
\* vertex_count vertices are dequeued, and the loop ends with the frontier
\* empty or, in shortest_path, on dequeuing end.
C9_EnqueuedOnceAndTerminates ==
    /\ pc # "panic"
    /\ EnqueuedOnce

\* a bfs_traverse call that dequeued every vertex of a four-vertex graph
C9_Witness ==
    /\ pc = "bfs_returned"
    /\ n = 4
    /\ deq = 4
    /\ \A v \in 0..3 : enq[v] = 1


----------------------------------------------------------------------------
(* Spec: main(), lines 37-146 *)

Digit == [d \in 0..9 |->
             CASE d = 0 -> "0" [] d = 1 -> "1" [] d = 2 -> "2" [] d = 3 -> "3"
               [] d = 4 -> "4" [] d = 5 -> "5" [] d = 6 -> "6" [] d = 7 -> "7"
               [] d = 8 -> "8" [] d = 9 -> "9"]

\* the texts "u,v" of the edges between the vertices of the bound
EdgeTexts == {<<Digit[u], ",", Digit[v]>> : u \in 0..MaxFileVertex, v \in 0..MaxFileVertex}

\* the digits of usize::MAX and of usize::MAX + 1
MaxText == <<"2", "1", "4", "7", "4", "8", "3", "6", "4", "7">>

PastMaxText == <<"2", "1", "4", "7", "4", "8", "3", "6", "4", "8">>

\* texts that need trimming, a sign or a second digit to parse, and the edge
\* to the largest vertex there is
OtherEdgeTexts == {<<" ", "0", ",", "1", " ">>, <<"+", "1", ",", "0">>,
                   <<"1", "0", ",", "0">>, <<"0", ",">> \o MaxText}

\* texts that are no edge: empty, one part, three parts, a word, an inner
\* blank, an empty part, a number past usize::MAX
BadTexts == {<<>>, <<"0">>, <<"0", ",", "1", ",", "2">>, <<"x", ",", "1">>,
             <<"0", ",", " ", "1">>, <<"0", ",">>, <<"0", ",">> \o PastMaxText}

UnreadableLine == [ok |-> FALSE, text |-> <<>>]

DataLines ==
    {[ok |-> TRUE, text |-> t] : t \in EdgeTexts \cup OtherEdgeTexts \cup BadTexts}
        \cup {UnreadableLine}

\* a file starts with a header, or with an edge where it has none
FirstLines == {[ok |-> TRUE, text |-> <<"u", ",", "v">>],
               [ok |-> TRUE, text |-> <<"0", ",", "1">>]}

Files ==
    {[opens |-> FALSE, lines |-> <<>>], [opens |-> TRUE, lines |-> <<>>]}
        \cup {[opens |-> TRUE, lines |-> <<h>> \o d] :
                 h \in FirstLines,
                 d \in UNION {[1..k -> DataLines] : k \in 0..(MaxLines - 1)}}

\* the texts of the numbers up to 19, with and without a sign, and of
\* usize::MAX
NumberTexts ==
    {<<Digit[d]>> : d \in 0..9}
        \cup {<<"+", Digit[d]>> : d \in 0..9}
        \cup {<<"1", Digit[d]>> : d \in 0..9}
        \cup {MaxText}

Blanks == {<<>>, <<" ">>}

\* the edge lines by their shape: two numbers with one comma between them,
\* and blanks at most around the two
WellFormedTexts ==
    {l \o a \o <<",">> \o b \o r :
        a \in NumberTexts, b \in NumberTexts, l \in Blanks, r \in Blanks}

WellFormed(line) == line.ok /\ line.text \in WellFormedTexts

ValidLines(f) ==
    IF f.opens
    THEN Cardinality({i \in 2..Len(f.lines) : WellFormed(f.lines[i])})
    ELSE 0

Init ==
    /\ pc = "start"
    /\ file \in Files
    /\ valid_lines = ValidLines(file)
    /\ edges = <<>>
    /\ n = NoGraph.n
    /\ adjacency = NoGraph.adjacency
    /\ NoCall
    /\ NoSampling
    /\ out = <<>>

\* lines 38-55: the title, read_edge_list and the two error returns
ReadStep ==
    /\ pc = "start"
    /\ LET r == read_edge_list(file)
       IN IF ~r.some
          THEN /\ out' = <<"title", "error_read">>
               /\ pc' = "exit"
               /\ UNCHANGED edges
          ELSE IF r.edges = <<>>
          THEN /\ out' = <<"title", "error_empty">>
               /\ pc' = "exit"
               /\ UNCHANGED edges
          ELSE /\ out' = <<"title">>
               /\ pc' = "build"
               /\ edges' = r.edges
    /\ file' = [file EXCEPT !.lines = <<>>]
    /\ UNCHANGED <<n, adjacency, valid_lines>>
    /\ UNCHANGED callVars
    /\ UNCHANGED mainVars

\* lines 57-75, in a build with or without overflow checks
BuildStep ==
    /\ pc = "build"
    /\ \E overflow_checks \in BOOLEAN :
           LET g == ConstructGraph(edges, overflow_checks)
           IN /\ n' = g.n
              /\ adjacency' = g.adjacency
              /\ pc' = IF g.fault THEN "panic_overflow" ELSE "bfs"
    /\ UNCHANGED <<file, edges, out, valid_lines>>
    /\ UNCHANGED callVars
    /\ UNCHANGED mainVars

\* lines 77-97: the traversal from edges[0].0 and the sampler's variables.
\* edges is not read after line 78 and is dropped here.
BfsStep ==
    /\ pc = "bfs"
    /\ LET start_vertex == edges[1][1]
           r == bfs_traverse(graph, start_vertex)
       IN IF r.fault
          THEN pc' = "panic" /\ UNCHANGED <<visited_vertices, out>>
          ELSE /\ visited_vertices' = r.value
               /\ IF Len(r.value) < 2
                  THEN out' = out \o <<"bfs_report", "not_enough">> /\ pc' = "exit"
                  ELSE out' = Append(out, "bfs_report") /\ pc' = "sample"
    /\ edges' = <<>>
    /\ chosen_pairs' = {}
    /\ random_pairs' = <<>>
    /\ attempts' = 0
    /\ UNCHANGED <<file, n, adjacency, next_pair, total_distance, counted_pairs,
                   valid_lines>>
    /\ UNCHANGED callVars

pair_sample_size == PairSampleSize

max_attempts == pair_sample_size * AttemptFactor

\* the pair is kept in the order it was drawn
SampleBodyUnordered(i, j) ==
    IF i # j
    THEN LET a == visited_vertices[i + 1]
             b == visited_vertices[j + 1]
             ordered_pair == <<a, b>>
         IN IF ordered_pair \notin chosen_pairs
            THEN [chosen_pairs |-> chosen_pairs \cup {ordered_pair},
                  random_pairs |-> Append(random_pairs, ordered_pair)]
            ELSE [chosen_pairs |-> chosen_pairs, random_pairs |-> random_pairs]
    ELSE [chosen_pairs |-> chosen_pairs, random_pairs |-> random_pairs]

\* lines 103-112, for the drawn indices i and j
SampleBody(i, j) ==
    IF i # j
    THEN LET a == visited_vertices[i + 1]
             b == visited_vertices[j + 1]
             ordered_pair == IF a < b THEN <<a, b>> ELSE <<b, a>>
         IN IF ordered_pair \notin chosen_pairs
            THEN [chosen_pairs |-> chosen_pairs \cup {ordered_pair},
                  random_pairs |-> Append(random_pairs, ordered_pair)]
            ELSE [chosen_pairs |-> chosen_pairs, random_pairs |-> random_pairs]
    ELSE [chosen_pairs |-> chosen_pairs, random_pairs |-> random_pairs]

\* line 99, the condition of the while loop
SampleMore == Len(random_pairs) < pair_sample_size /\ attempts < max_attempts

\* lines 99-114, one iteration; i and j are the two gen_range draws
SampleIter(i, j) ==
    /\ pc = "sample"
    /\ SampleMore
    /\ chosen_pairs' = SampleBody(i, j).chosen_pairs
    /\ random_pairs' = SampleBody(i, j).random_pairs
    /\ attempts' = attempts + 1
    /\ UNCHANGED <<pc, file, edges, n, adjacency, visited_vertices, next_pair,
                   total_distance, counted_pairs, out, valid_lines>>
    /\ UNCHANGED callVars

\* lines 99 and 116-123: the loop ends
SampleDone ==
    /\ pc = "sample"
    /\ ~SampleMore
    /\ IF random_pairs = <<>>
       THEN out' = Append(out, "no_pairs") /\ pc' = "exit"
       ELSE out' = out /\ pc' = "distance"
    /\ total_distance' = 0
    /\ counted_pairs' = 0
    /\ UNCHANGED <<file, edges, n, adjacency, visited_vertices, chosen_pairs,
                   random_pairs, attempts, next_pair, valid_lines>>
    /\ UNCHANGED callVars

\* lines 124-130, one iteration of the for loop over &random_pairs
DistIter ==
    /\ pc = "distance"
    /\ next_pair < Len(random_pairs)
    /\ LET a == random_pairs[next_pair + 1][1]
           b == random_pairs[next_pair + 1][2]
           r == shortest_path(graph, a, b)
       IN IF r.fault
          THEN pc' = "panic" /\ UNCHANGED <<total_distance, counted_pairs>>
          ELSE /\ pc' = pc
               /\ IF r.value # USIZE_MAX
                  THEN /\ total_distance' = total_distance + r.value
                       /\ counted_pairs' = counted_pairs + 1
                  ELSE UNCHANGED <<total_distance, counted_pairs>>
    /\ next_pair' = next_pair + 1
    /\ UNCHANGED <<file, edges, n, adjacency, visited_vertices, chosen_pairs,
                   random_pairs, attempts, out, valid_lines>>
    /\ UNCHANGED callVars

\* lines 132-145
ReportStep ==
    /\ pc = "distance"
    /\ next_pair = Len(random_pairs)
    /\ IF counted_pairs = 0
       THEN out' = Append(out, "none_reachable")
       ELSE out' = out \o <<"report", "completed">>
    /\ pc' = "exit"
    /\ UNCHANGED <<file, edges, n, adjacency, valid_lines>>
    /\ UNCHANGED callVars
    /\ UNCHANGED mainVars

Next ==
    \/ ReadStep
    \/ BuildStep
    \/ BfsStep
    \/ \E i \in 0..(Len(visited_vertices) - 1), j \in 0..(Len(visited_vertices) - 1) :
           SampleIter(i, j)
    \/ SampleDone
    \/ DistIter
    \/ ReportStep

Spec == Init /\ [][Next]_vars

----------------------------------------------------------------------------
(* Claims about main(), under Spec *)

IsSorted(s) == \A i \in 1..(Len(s) - 1) : s[i] <= s[i + 1]

\* how often the edge list joins u and v, either way round
EdgeCount(u, v) ==
    Cardinality({i \in DOMAIN edges : edges[i] = <<u, v>> \/ edges[i] = <<v, u>>})

GraphBuilt == pc \notin {"start", "build", "panic_overflow"}

\* what C6 says of the graph, once it is built from edges
GraphOfEdges ==
    /\ DOMAIN adjacency = 0..(n - 1)
    /\ \A u \in 0..(n - 1) :
           /\ IsSorted(adjacency[u])
           /\ \A i \in DOMAIN adjacency[u] : adjacency[u][i] \in 0..(n - 1)
           /\ \A v \in 0..(n - 1) : Count(adjacency[u], v) = Count(adjacency[v], u)
    /\ \E i \in DOMAIN edges : n - 1 \in {edges[i][1], edges[i][2]}
    /\ \A i \in DOMAIN edges : edges[i][1] < n /\ edges[i][2] < n
    /\ \A u \in 0..(n - 1), v \in 0..(n - 1) :
           Count(adjacency[u], v)
               = IF u = v THEN 2 * EdgeCount(u, u) ELSE EdgeCount(u, v)

\* C6: for a non-empty edge sequence the graph built in main has
\* vertex_count = 1 + the largest endpoint, a list for every vertex below
\* vertex_count, every neighbour below vertex_count, each list ascending, v in
\* adjacency[u] exactly if u in adjacency[v], and every input edge in both
\* directions, parallel edges kept and a self-loop twice in its list.
C6_GraphWellFormed ==
    /\ pc # "panic_overflow"
    /\ pc = "bfs" => edges # <<>> /\ GraphOfEdges

\* the same for the edge sequences whose endpoints are all below usize::MAX,
\* where line 59 does not overflow
GraphWellFormedBelowMax ==
    (pc \in {"bfs", "panic_overflow"} /\ max_vertex_index(edges) < USIZE_MAX)
    => pc = "bfs" /\ GraphOfEdges

\* the graph of the edges (1,1), (1,0): the list of 1 holds 0 and 1 twice
GraphWithSelfLoop ==
    /\ pc = "bfs"
    /\ edges = << <<1, 1>>, <<1, 0>> >>
    /\ n = 2
    /\ adjacency[1] = <<0, 1, 1>>
    /\ adjacency[0] = <<1>>

Choose2(m) == (m * (m - 1)) \div 2

Min(a, b) == IF a < b THEN a ELSE b

InSampling == pc = "sample"

AfterSampling == pc = "distance" \/ (pc = "exit" /\ Len(visited_vertices) >= 2)

\* C7: in every state of the sampling loop and after it, for a reachable
\* sequence of length m >= 2 and sample size k: the pairs are pairwise
\* distinct, each is (a, b) with a < b and a, b in the reachable sequence,
\* there are at most min(k, C(m,2)) of them, attempts is at most the budget
\* (k times the factor), and the loop has ended exactly if k pairs are
\* collected or the budget is used.
C7_SamplerBounded ==
    (InSampling \/ AfterSampling)
    => /\ Len(visited_vertices) >= 2
       /\ \A i, j \in DOMAIN random_pairs : random_pairs[i] = random_pairs[j] => i = j
       /\ \A i \in DOMAIN random_pairs :
              /\ random_pairs[i][1] < random_pairs[i][2]
              /\ random_pairs[i][1] \in Range(visited_vertices)
              /\ random_pairs[i][2] \in Range(visited_vertices)
       /\ chosen_pairs = Range(random_pairs)
       /\ Len(random_pairs) <= Min(PairSampleSize, Choose2(Len(visited_vertices)))
       /\ attempts <= AttemptFactor * PairSampleSize
       /\ Len(random_pairs) <= attempts
       /\ AfterSampling
          => (Len(random_pairs) = PairSampleSize
                 \/ attempts = AttemptFactor * PairSampleSize)
       /\ (InSampling /\ (Len(random_pairs) = PairSampleSize
                             \/ attempts = AttemptFactor * PairSampleSize))
          => ~ENABLED (\E i, j \in 0..(Len(visited_vertices) - 1) : SampleIter(i, j))

\* the budget was used up on a reachable sequence of two vertices, which
\* has a single pair, short of the sample size
C7_Witness ==
    /\ pc = "distance"
    /\ Len(visited_vertices) = 2
    /\ attempts = AttemptFactor * PairSampleSize
    /\ Len(random_pairs) = 1
    /\ Len(random_pairs) < PairSampleSize

\* C8: if the file cannot be opened or holds no valid edge after its first
\* line, the program reports an error and ends: no graph is built, and no
\* traversal, sampling, distance query or report is run.
C8_NoEdgesIsAnError ==
    (pc # "start" /\ valid_lines = 0)
    => /\ pc = "exit"
       /\ out = <<"title", "error_read">>
       /\ edges = <<>>
       /\ graph = NoGraph
       /\ NoCall
       /\ NoSampling

\* a file that opened and held lines, none of them an edge
C8_Witness ==
    /\ pc = "exit"
    /\ file.opens
    /\ valid_lines = 0
    /\ out = <<"title", "error_read">>

\* C10: every sampled pair is drawn from the vertices reachable from
\* edges[0].0, so shortest_path returns a finite distance for each: the
\* distance loop counts every pair, and the message that none of the pairs
\* is reachable is never printed.
C10_SampledPairsReachable ==
    /\ pc # "panic"
    /\ pc = "distance" => counted_pairs = next_pair
    /\ (pc = "exit" /\ random_pairs # <<>>)
       => counted_pairs = Len(random_pairs) /\ next_pair = Len(random_pairs)
    /\ \A i \in DOMAIN out : out[i] # "none_reachable"
    /\ \A i \in DOMAIN random_pairs :
           LET d == shortest_path(graph, random_pairs[i][1], random_pairs[i][2])
           IN ~d.fault /\ d.value # USIZE_MAX /\ d.value >= 1

\* a run that reported on two pairs, one of them two edges apart
C10_Witness ==
    /\ pc = "exit"
    /\ out = <<"title", "bfs_report", "report", "completed">>
    /\ counted_pairs = 2
    /\ total_distance = 3

============================================================================
